---- MODULE Spec2Model ----
(***************************************************************************)
(* TempDomainService (src/services/TempDomainService.ts): the persisted,   *)
(* periodically refreshed set of disposable e-mail domains.                *)
(*                                                                         *)
(* A JavaScript string is a sequence of one-character strings.  Every      *)
(* asynchronous method is a process whose steps are the stretches of code  *)
(* between two awaits: the event loop runs one such stretch at a time.     *)
(***************************************************************************)
EXTENDS Integers, Sequences, FiniteSets

\* ------------------------------------------------------------------ strings

LowerSeq == <<"a","b","c","d","e","f","g","h","i","j","k","l","m",
              "n","o","p","q","r","s","t","u","v","w","x","y","z">>
UpperSeq == <<"A","B","C","D","E","F","G","H","I","J","K","L","M",
              "N","O","P","Q","R","S","T","U","V","W","X","Y","Z">>
Digits == {"0","1","2","3","4","5","6","7","8","9"}
Whitespace == {" ", "\t", "\n", "\r"}

IsUpper(c) == \E i \in 1..26 : UpperSeq[i] = c
IsLower(c) == \E i \in 1..26 : LowerSeq[i] = c
IsLetter(c) == IsUpper(c) \/ IsLower(c)
IsAlnum(c) == IsLetter(c) \/ c \in Digits
IsSep(c) == c \in {"-", "."}

\* String.prototype.toLowerCase
ToLowerChar(c) == IF IsUpper(c) THEN LowerSeq[CHOOSE i \in 1..26 : UpperSeq[i] = c] ELSE c
toLowerCase(s) == [i \in 1..Len(s) |-> ToLowerChar(s[i])]

\* String.prototype.trim
RECURSIVE TrimLeft(_)
TrimLeft(s) == IF s # <<>> /\ Head(s) \in Whitespace THEN TrimLeft(Tail(s)) ELSE s
RECURSIVE TrimRight(_)
TrimRight(s) ==
  IF s # <<>> /\ s[Len(s)] \in Whitespace THEN TrimRight(SubSeq(s, 1, Len(s) - 1)) ELSE s
trim(s) == TrimRight(TrimLeft(s))

\* String.prototype.split('\n')
RECURSIVE SplitFrom(_, _, _)
SplitFrom(s, i, cur) ==
  IF i > Len(s) THEN <<cur>>
  ELSE IF s[i] = "\n" THEN <<cur>> \o SplitFrom(s, i + 1, <<>>)
  ELSE SplitFrom(s, i + 1, Append(cur, s[i]))
SplitLines(s) == SplitFrom(s, 1, <<>>)

startsWith(s, p) == Len(s) >= Len(p) /\ SubSeq(s, 1, Len(p)) = p

Range(q) == {q[i] : i \in 1..Len(q)}

\* Array.prototype.sort() on strings: by UTF-16 code units. The characters of
\* this model in the order of their codes.
CodeOrder == <<"\t", "\n", "\r", " ", "#", "-", ".", "/">>
             \o <<"0","1","2","3","4","5","6","7","8","9">> \o UpperSeq \o LowerSeq
CharCode(c) == CHOOSE i \in 1..Len(CodeOrder) : CodeOrder[i] = c
RECURSIVE StringLess(_, _)
StringLess(a, b) ==
  IF a = <<>> THEN b # <<>>
  ELSE IF b = <<>> THEN FALSE
  ELSE IF Head(a) = Head(b) THEN StringLess(Tail(a), Tail(b))
  ELSE CharCode(Head(a)) < CharCode(Head(b))
RECURSIVE sort(_)
sort(S) ==
  IF S = {} THEN <<>>
  ELSE LET m == CHOOSE x \in S : \A y \in S \ {x} : StringLess(x, y)
       IN <<m>> \o sort(S \ {m})

\* new RegExp(pattern, 'i').test(s) for a pattern of letters and digits: the
\* pattern occurs in s, letter case apart
RegExpTest(pattern, s) ==
  \E i \in 1..(Len(s) - Len(pattern) + 1) :
    toLowerCase(SubSeq(s, i, i + Len(pattern) - 1)) = toLowerCase(pattern)

\* ------------------------------------------------------- domain validation

MaxDomainLength == 253

\* [a-z0-9]+([\-\.]{1}[a-z0-9]+)* under the i flag: alphanumeric runs joined by
\* single separators.
MatchesLabels(p) ==
  /\ Len(p) >= 1
  /\ IsAlnum(p[1])
  /\ IsAlnum(p[Len(p)])
  /\ \A j \in 1..Len(p) : IsAlnum(p[j]) \/ IsSep(p[j])
  /\ \A j \in 1..(Len(p) - 1) : ~(IsSep(p[j]) /\ IsSep(p[j + 1]))

\* ^...\.[a-z]{2,}$ : the part after some dot is two or more letters (it holds no
\* dot, so that dot is the last one) and the part before it matches the labels.
MatchesDomainRegex(s) ==
  \E k \in 1..Len(s) :
    /\ s[k] = "."
    /\ Len(s) - k >= 2
    /\ \A j \in (k + 1)..Len(s) : IsLetter(s[j])
    /\ MatchesLabels(SubSeq(s, 1, k - 1))

\* (variant: the length of the string is not checked)
isValidDomain_NoLengthCheck(s) == MatchesDomainRegex(s)

isValidDomain(s) == MatchesDomainRegex(s) /\ Len(s) <= MaxDomainLength

LineKept(line) ==
  /\ line # <<>>
  /\ ~startsWith(line, <<"#">>)
  /\ ~startsWith(line, <<"/", "/">>)

parseDomainList(data) ==
  LET lines == SplitLines(data)
      trimmed == [i \in 1..Len(lines) |-> trim(lines[i])]
  IN SelectSeq(SelectSeq(trimmed, LineKept), isValidDomain)

\* ------------------------------------------------------------ configuration

\* Entries of the built-in list (the only one of it that fails the domain rule,
\* and a short valid one).
D_grr_la == <<"g","r","r",".","l","a">>
D_yopmail_2 == <<"y","o","p","m","a","i","l",".","2">>
builtInDomains == {D_grr_la, D_yopmail_2}

\* Domains of the environment: a configured custom domain, a domain a caller
\* adds, and the domains of the remote lists.
D_X_co == <<"X",".","c","o">>
D_n_io == <<"n",".","i","o">>
D_r_io == <<"r",".","i","o">>
D_s_io == <<"s",".","i","o">>

\* Domains a caller asks about: one the built-in list does not hold (it holds
\* mailinator.net, mailinator.org, mailinator2.com, ... but not this one) and one
\* of a regular provider.
D_mailinator_com == <<"m","a","i","l","i","n","a","t","o","r",".","c","o","m">>
D_gmail_com == <<"g","m","a","i","l",".","c","o","m">>

\* "r.io\n# c\nno pe\n S.io \n"
BodyTwo == <<"r",".","i","o","\n","#"," ","c","\n","n","o"," ","p","e","\n",
             " ","S",".","i","o"," ","\n">>
\* What one GET can bring: a failure (HTTP error, network error, timeout, a body
\* that is no string) or a body.
Responses == {[ok |-> FALSE, body |-> <<>>],
              [ok |-> TRUE, body |-> BodyTwo]}

\* config.customDomains, with an upper-case letter as a caller may write it
CustomChoices == {{D_X_co}}

AddInputs == {<<D_n_io>>}
RemoveInputs == {<<D_grr_la>>, <<D_n_io>>}

\* Strings a caller passes to addDomains: " N.io " (upper case, surrounding
\* spaces), "not a domain", "", and 300 characters that have the shape of a
\* domain ("aaa...a.io").
S_N_io_padded == <<" ","N",".","i","o"," ">>
S_not_a_domain == <<"n","o","t"," ","a"," ","d","o","m","a","i","n">>
S_empty == <<>>
LongLength == 300
S_long == [i \in 1..LongLength |->
             IF i = LongLength - 2 THEN "."
             ELSE IF i = LongLength - 1 THEN "i"
             ELSE IF i = LongLength THEN "o" ELSE "a"]

\* The collection of scenario 4 of the specification.
D_10minutemail_com == <<"1","0","m","i","n","u","t","e","m","a","i","l",".","c","o","m">>
D_temp_mail_org == <<"t","e","m","p","-","m","a","i","l",".","o","r","g">>
SearchScenario == {D_10minutemail_com, D_gmail_com, D_temp_mail_org}

\* The arrays passed to addDomains and removeDomains in the calls scenario and
\* to addDomains in the add-against-refresh scenario.
CallAddInputs == {<<D_n_io>>, <<S_N_io_padded>>, <<S_not_a_domain, S_empty, S_long>>,
                  <<S_not_a_domain, S_N_io_padded, S_long>>}

\* An entry of the array an imported JSON file holds: a string, or something
\* else (a number, null, an object).
StringItem(s) == [str |-> TRUE, s |-> s]
NonString == [str |-> FALSE, s |-> <<>>]
JsonExport(items) == [kind |-> "json", items |-> items, body |-> <<>>]
\* What importDomains may find at its path: no file, a .json file that does not
\* parse, {"domains": ["n.io", "n.io", "not a domain", "grr.la"]},
\* {"domains": ["n.io", 5]}, and a text file.
ImportFiles == {[kind |-> "missing", items |-> <<>>, body |-> <<>>],
                [kind |-> "malformed", items |-> <<>>, body |-> <<>>],
                JsonExport(<<StringItem(D_n_io), StringItem(D_n_io),
                             StringItem(S_not_a_domain), StringItem(D_grr_la)>>),
                JsonExport(<<StringItem(D_n_io), NonString>>),
                [kind |-> "txt", items |-> <<>>, body |-> BodyTwo]}
\* the argument of searchDomains
P_temp == <<"t","e","m","p">>
SearchPatterns == {P_temp}
CallRemoveInputs == {<<D_grr_la>>, <<S_N_io_padded>>}
RaceInputs == {<<D_n_io>>, <<D_r_io>>, <<D_s_io, D_n_io>>}

\* config.externalSources.length
NumSources == 2
\* calls from outside in one run: the methods called, the timer's ticks, restarts
MaxCalls == 2
\* calls from outside in one run of the calls scenario
MaxSeq == 3

\* every call may start a cycle, and initialize() starts one
Slots == 1..(MaxCalls + 1)
Ops == {"add", "remove", "reset", "import", "export"}

\* ------------------------------------------------------------------- state

VARIABLES
  config,       \* this.config: autoUpdate, customDomains
  domains,      \* this.domains
  lastUpdate,   \* this.lastUpdate: 0 is null
  updateTimer,  \* this.updateTimer is armed
  initPc,       \* where initialize() stands: load, loaded, update, done
  file,         \* the file at config.localStoragePath
  cycles,       \* the calls of updateFromExternalSources in flight
  calls,        \* the calls of addDomains, removeDomains and reset in flight
  budget,       \* calls from outside still to come
  destroyed,    \* history: destroy() was called on this instance
  added,        \* history: domains addDomains accepted after initialization
  removed,      \* history: members a removeDomains call deleted
  gone,         \* history: removals of the previous process, whose file held its
                \* last collection and was read by this one
  race,         \* history of the add-against-refresh scenario
  xfile,        \* the file at the path given to exportDomains and importDomains
  hist,         \* history of the startup and of the calls scenarios
  track,        \* history: removals not undone by a call, additions and removals
                \* made before initialization completed
  guard         \* TrialAbuseGuard: the checkUser call in progress and its result

vars == <<config, domains, lastUpdate, updateTimer, initPc, file, cycles, calls,
          budget, destroyed, added, removed, gone, race, xfile, hist, track, guard>>

NoSnapshot == [domains |-> {}, lastUpdate |-> 0]
IdleCall == [pc |-> "idle", data |-> NoSnapshot, ret |-> 0]
IdleCycle == [pc |-> "idle", kind |-> "none", newDomains |-> {}, src |-> 0,
              data |-> NoSnapshot, size0 |-> 0, rm |-> FALSE, mutated |-> FALSE,
              got |-> {}, failed |-> FALSE]

InFlight(c) == cycles[c].pc \in {"fetch", "save"}
AllIdle ==
  /\ initPc = "done"
  /\ \A c \in Slots : ~InFlight(c)
  /\ \A op \in Ops : calls[op].pc \notin {"read", "save", "write"}

\* new Date(): some instant
Now == 1

MissingFile == [kind |-> "missing", hasDomains |-> FALSE, domains |-> {}, lastUpdate |-> 0]
MalformedFile == [kind |-> "malformed", hasDomains |-> FALSE, domains |-> {}, lastUpdate |-> 0]
JsonFile(ds, lu) == [kind |-> "json", hasDomains |-> TRUE, domains |-> ds, lastUpdate |-> lu]
\* valid JSON with no domains array
JsonNoList == [kind |-> "json", hasDomains |-> FALSE, domains |-> {}, lastUpdate |-> 0]

InitialFiles == {MissingFile, JsonFile({}, 0), JsonFile({D_r_io}, 1)}

RaceOff == [on |-> FALSE, base |-> {}, input |-> <<>>, resps |-> <<>>,
            addDone |-> FALSE, started |-> FALSE]

\* Nothing tracked. absent: the domains no source lists that removeDomains
\* deleted once the persisted state was loaded and that no addDomains,
\* importDomains or reset brought back; early, earlyAbsent: the domains added
\* and deleted before initialization completed, not deleted or added since.
NoTrack == [absent |-> {}, early |-> {}, earlyAbsent |-> {}]
\* ------------------------------------------------------- TrialAbuseGuard
\* The four checks of analyzeAllFactors, and the constructor's defaults.
Checks == {"emailSimilarity", "tempEmail", "ipRisk", "vpnDetection"}
defaultChecks == [c \in Checks |-> TRUE]

\* What a detector call came to: it threw, or it answered. flag is suspicious /
\* isTemp / isVPN || isProxy || isTor; n is highestSimilarity in thousandths or
\* riskScore.
Threw == [status |-> "rejected", flag |-> FALSE, n |-> 0]
Answered(flag, n) == [status |-> "fulfilled", flag |-> flag, n |-> n]

\* A risk factor; confidence is kept in thousandths.
createErrorFactor == [score |-> 0, detected |-> FALSE, confidence |-> 0]

\* No checkUser call, no score classified.
GuardIdle ==
  [pc |-> "idle", config |-> defaultChecks, email |-> "", ip |-> "",
   outcome |-> [c \in Checks |-> Threw],
   factors |-> [c \in Checks |-> createErrorFactor],
   overall |-> 0, recommendation |-> "allow", score |-> 0, level |-> "low"]

\* no file at the export path
NoExport == [kind |-> "missing", items |-> <<>>, body |-> <<>>]

\* The history kept in the startup and calls scenarios: whether the initial load
\* failed, whether a writeFile failed, and the calls made from outside.
HistOff == [on |-> FALSE, loadFailed |-> FALSE, writeFailed |-> FALSE, log |-> <<>>]
HistOn == [HistOff EXCEPT !.on = TRUE]
\* One call from outside: the collection before it and after its synchronous
\* part, whether it started a write of the persisted file, what it read or wrote
\* at the export path, what it returned and whether it raised.
Entry(op, input, d1, wrote) ==
  [op |-> op, input |-> input, d0 |-> domains, d1 |-> d1, f0 |-> file,
   wrote |-> wrote, x |-> <<>>, ret |-> 0, raised |-> FALSE, found |-> {},
   idle |-> AllIdle]
Logged(entry) == IF hist.on THEN [hist EXCEPT !.log = Append(@, entry)] ELSE hist
WriteLogged(ok) == IF hist.on /\ ~ok THEN [hist EXCEPT !.writeFailed = TRUE] ELSE hist

\* -------------------------------------------------------------- pure parts

\* loadBuiltInDomains: new Set([...builtInDomains, ...customDomains])
\* (variant: reset restores the built-in list only)
loadBuiltInDomains_NoCustom(custom) == builtInDomains
loadBuiltInDomains(custom) == builtInDomains \cup custom

\* updateFromExternalSources before the first GET: a copy of this.domains plus
\* the lower-cased custom domains plus the built-in ones
Snapshot(ds, custom) == ds \cup {toLowerCase(d) : d \in custom} \cup builtInDomains

\* parseDomainList on the bodies of this model, computed once
ParsedBody == [b \in {r.body : r \in Responses} |-> parseDomainList(b)]

\* the domains some remote source lists, as a cycle adds them
RemoteListed == UNION {{toLowerCase(d) : d \in Range(ParsedBody[r.body])} : r \in Responses}

\* (variant: a failed source makes the cycle fall back to the built-in list)
WithResponse_FailureFallsBack(new, resp) ==
  IF resp.ok
    THEN new \cup {toLowerCase(d) : d \in Range(ParsedBody[resp.body])}
    ELSE builtInDomains

\* One response handled: a failed source adds nothing
WithResponse(new, resp) ==
  IF resp.ok
    THEN new \cup {toLowerCase(d) : d \in Range(ParsedBody[resp.body])}
    ELSE new

\* (variant: the merge replaces the collection whatever the sizes)
MergeWins_Always(new, ds) == TRUE

\* if (newDomains.size > this.domains.size)
MergeWins(new, ds) == Cardinality(new) > Cardinality(ds)
Merge(new, ds) == IF MergeWins(new, ds) THEN new ELSE ds

\* domain.toLowerCase().trim() and isValidDomain(normalized) on the strings
\* passed in this model (to addDomains and removeDomains, or read by
\* importDomains from a file: one of ImportFiles or an export of the
\* collection), computed once
CallStrings ==
  UNION {Range(input) : input \in AddInputs \cup RemoveInputs \cup CallAddInputs
                                  \cup CallRemoveInputs \cup RaceInputs}
  \cup UNION {{f.items[i].s : i \in 1..Len(f.items)} : f \in ImportFiles}
  \cup Range(ParsedBody[BodyTwo])
  \cup builtInDomains \cup {D_X_co, D_r_io, D_n_io} \cup SearchScenario
NormalizedString == [s \in CallStrings |-> trim(toLowerCase(s))]
ValidString == [s \in CallStrings |-> isValidDomain(NormalizedString[s])]

\* the loop of addDomains over its array
RECURSIVE AddAll(_, _)
AddAll(ds, input) ==
  IF input = <<>> THEN ds
  ELSE LET normalized == NormalizedString[Head(input)]
       IN AddAll(IF ValidString[Head(input)] /\ normalized \notin ds
                   THEN ds \cup {normalized} ELSE ds,
                 Tail(input))

\* (variant: the loop counts every valid string, member already or not)
RECURSIVE AddedCount_NoHasTest(_, _)
AddedCount_NoHasTest(ds, input) ==
  IF input = <<>> THEN 0
  ELSE LET normalized == NormalizedString[Head(input)]
       IN (IF ValidString[Head(input)] THEN 1 ELSE 0)
            + AddedCount_NoHasTest(ds \cup {normalized}, Tail(input))

\* the counter `added` of that loop
RECURSIVE AddedCount(_, _)
AddedCount(ds, input) ==
  IF input = <<>> THEN 0
  ELSE LET normalized == NormalizedString[Head(input)]
           fresh == ValidString[Head(input)] /\ normalized \notin ds
       IN (IF fresh THEN 1 ELSE 0)
            + AddedCount(IF fresh THEN ds \cup {normalized} ELSE ds, Tail(input))

\* (variant: the file is written whatever the counter)
ShouldSave_Always(count) == TRUE

\* if (added > 0), if (removed > 0)
ShouldSave(count) == count > 0

\* the loop of removeDomains over its array
RECURSIVE RemoveAll(_, _)
RemoveAll(ds, input) ==
  IF input = <<>> THEN ds
  ELSE LET normalized == NormalizedString[Head(input)]
       IN RemoveAll(ds \ {normalized}, Tail(input))

\* the counter `removed` of that loop
RECURSIVE RemovedCount(_, _)
RemovedCount(ds, input) ==
  IF input = <<>> THEN 0
  ELSE LET normalized == NormalizedString[Head(input)]
       IN (IF normalized \in ds THEN 1 ELSE 0) + RemovedCount(ds \ {normalized}, Tail(input))

isDomainTemporary(d) == toLowerCase(d) \in domains

\* (variant: the filter is left out)
searchDomains_NoFilter(pattern) == domains

\* searchDomains: Array.from(this.domains).filter(domain => regex.test(domain)),
\* as a set
searchDomains(pattern) == {d \in domains : RegExpTest(pattern, d)}

\* importDomains: the array it passes to addDomains, from a .json file
\* (parsed.domains || parsed) or from a text file (parseDomainList)
ImportedItems(f) ==
  IF f.kind = "json" THEN f.items
  ELSE LET lines == ParsedBody[f.body] IN [i \in 1..Len(lines) |-> StringItem(lines[i])]
\* addDomains on that array: its loop calls toLowerCase on each entry and throws
\* at the first one that is not a string
RECURSIVE StringsBefore(_)
StringsBefore(items) ==
  IF items = <<>> \/ ~Head(items).str THEN <<>>
  ELSE <<Head(items).s>> \o StringsBefore(Tail(items))
Throws(items) == \E i \in 1..Len(items) : ~items[i].str

\* (variant: the error of writeFile is not caught)
SaveOutcome_Propagates(ok) == IF ok THEN "fulfilled" ELSE "rejected"

\* saveToStorage catches the error of writeFile: its promise is fulfilled
\* whether the write succeeded or not
SaveOutcome(ok) == "fulfilled"

\* what a load puts in this.domains and this.lastUpdate
LoadedDomains(f, readOk, ds, custom) ==
  IF readOk /\ f.kind = "json"
    THEN (IF f.hasDomains THEN f.domains ELSE ds)
    ELSE loadBuiltInDomains(custom)
LoadedLastUpdate(f, readOk, lu) ==
  IF readOk /\ f.kind = "json" /\ f.hasDomains THEN f.lastUpdate ELSE lu

\* ------------------------------------------------------------------ actions

\* The constructor: the defaults merged with the configuration, then
\* initialize() up to its first await (the readFile of loadFromStorage).
Init ==
  /\ config \in [autoUpdate : BOOLEAN, customDomains : CustomChoices]
  /\ domains = {}
  /\ lastUpdate = 0
  /\ updateTimer = FALSE
  /\ initPc = "load"
  /\ file \in InitialFiles
  /\ cycles = [c \in Slots |-> IdleCycle]
  /\ calls = [op \in Ops |-> IdleCall]
  /\ budget = MaxCalls
  /\ destroyed = FALSE
  /\ added = {}
  /\ removed = {}
  /\ gone = {}
  /\ race = RaceOff
  /\ xfile = NoExport
  /\ hist = HistOff
  /\ track = NoTrack
  /\ guard = GuardIdle

\* The cycles in flight other than `self` see this.domains change under them.
Touch(self, changed, isRemove) ==
  [c \in Slots |->
     IF c # self /\ InFlight(c)
       THEN [cycles[c] EXCEPT !.mutated = @ \/ changed, !.rm = @ \/ isRemove]
       ELSE cycles[c]]

FreeSlots == {c \in Slots : cycles[c].pc = "idle"}

\* A slot is kept for the cycle of initialize().
CanStart(kind) ==
  \/ kind = "init" /\ FreeSlots # {}
  \/ kind # "init" /\ initPc \in {"update", "done"} /\ FreeSlots # {}
  \/ kind # "init" /\ Cardinality(FreeSlots) >= 2

\* updateFromExternalSources up to the GET of the first source
StartedCycle(kind) ==
  [pc |-> "fetch", kind |-> kind,
   newDomains |-> Snapshot(domains, config.customDomains), src |-> 1,
   data |-> NoSnapshot, size0 |-> Cardinality(domains), rm |-> FALSE,
   mutated |-> FALSE, got |-> {}, failed |-> FALSE]

CycleStart(kind) ==
  LET c == CHOOSE x \in FreeSlots : \A y \in FreeSlots : x <= y
  IN cycles' = [cycles EXCEPT ![c] = StartedCycle(kind)]

\* loadFromStorage after its readFile
LoadDone(readOk) ==
  /\ initPc = "load"
  /\ domains' = LoadedDomains(file, readOk, domains, config.customDomains)
  /\ lastUpdate' = LoadedLastUpdate(file, readOk, lastUpdate)
  /\ initPc' = "loaded"
  /\ cycles' = Touch(0, domains' # domains, FALSE)
  /\ gone' = IF readOk THEN gone ELSE {}
  /\ UNCHANGED <<config, updateTimer, file, calls, budget, destroyed, added, removed,
                 race>>
  /\ hist' = IF hist.on /\ ~(readOk /\ file.kind = "json")
               THEN [hist EXCEPT !.loadFailed = TRUE] ELSE hist
  /\ UNCHANGED xfile
  /\ UNCHANGED <<track, guard>>

\* initialize() after loadFromStorage: with an empty set or autoUpdate the first
\* refresh cycle starts, otherwise initialization is over
InitAfterLoad ==
  /\ initPc = "loaded"
  /\ IF Cardinality(domains) = 0 \/ config.autoUpdate
       THEN /\ CanStart("init")
            /\ CycleStart("init")
            /\ initPc' = "update"
       ELSE /\ initPc' = "done"
            /\ UNCHANGED cycles
  /\ UNCHANGED <<config, domains, lastUpdate, updateTimer, file, calls, budget,
                 destroyed, added, removed, gone, race>>
  /\ UNCHANGED <<xfile, hist>>
  /\ UNCHANGED <<track, guard>>

\* The end of a cycle as initialize() sees it: setupAutoUpdate arms the timer
\* when the cycle of initialize() is over and autoUpdate is set.
TimerAfter(kind, outcome) ==
  IF kind = "init" /\ outcome = "fulfilled" /\ config.autoUpdate THEN TRUE ELSE updateTimer
InitPcAfter(kind) == IF kind = "init" THEN "done" ELSE initPc
\* The promise of forceUpdate is that of its cycle; a rejected scheduled cycle is
\* logged by the timer's callback, that of initialize() by its catch.
EndedCycle(kind, outcome) ==
  IF outcome = "fulfilled" \/ kind # "force" THEN IdleCycle
  ELSE [IdleCycle EXCEPT !.pc = "rejected"]

\* The response of the source a cycle waits for; after the last source the merge,
\* and up to the writeFile of saveToStorage when the merge took place.
FetchDone(c, resp) ==
  /\ cycles[c].pc = "fetch"
  /\ LET cy == cycles[c]
         new2 == WithResponse(cy.newDomains, resp)
         got2 == cy.got \cup (IF resp.ok THEN Range(ParsedBody[resp.body]) ELSE {})
         failed2 == cy.failed \/ ~resp.ok
     IN IF cy.src < NumSources
          THEN /\ cycles' = [cycles EXCEPT ![c] =
                     [cy EXCEPT !.newDomains = new2, !.src = @ + 1,
                                !.got = got2, !.failed = failed2]]
               /\ UNCHANGED <<domains, lastUpdate, updateTimer, initPc>>
          ELSE IF MergeWins(new2, domains)
            THEN /\ domains' = new2
                 /\ lastUpdate' = Now
                 /\ cycles' = [Touch(c, TRUE, FALSE) EXCEPT ![c] =
                       [cy EXCEPT !.pc = "save", !.newDomains = new2,
                                  !.data = [domains |-> new2, lastUpdate |-> Now],
                                  !.got = got2, !.failed = failed2]]
                 /\ UNCHANGED <<updateTimer, initPc>>
            ELSE /\ cycles' = [cycles EXCEPT ![c] = EndedCycle(cy.kind, "fulfilled")]
                 /\ updateTimer' = TimerAfter(cy.kind, "fulfilled")
                 /\ initPc' = InitPcAfter(cy.kind)
                 /\ UNCHANGED <<domains, lastUpdate>>
  /\ race' = IF race.on THEN [race EXCEPT !.resps = Append(@, resp)] ELSE race
  /\ UNCHANGED <<config, file, calls, budget, destroyed, added, removed, gone>>
  /\ UNCHANGED <<xfile, hist>>
  /\ UNCHANGED <<track, guard>>

\* The writeFile of a cycle's saveToStorage is over, and with it the cycle. A
\* rejection reaches the catch of initialize(), which loads the built-in list.
CycleWriteDone(c, ok) ==
  /\ cycles[c].pc = "save"
  /\ LET cy == cycles[c]
         outcome == SaveOutcome(ok)
         caught == cy.kind = "init" /\ outcome # "fulfilled"
     IN /\ file' = IF ok THEN JsonFile(cy.data.domains, cy.data.lastUpdate) ELSE file
        /\ domains' = IF caught THEN loadBuiltInDomains(config.customDomains) ELSE domains
        /\ cycles' = [Touch(c, domains' # domains, FALSE) EXCEPT ![c] =
                        EndedCycle(cy.kind, outcome)]
        /\ updateTimer' = TimerAfter(cy.kind, outcome)
        /\ initPc' = InitPcAfter(cy.kind)
  /\ UNCHANGED <<config, lastUpdate, calls, budget, destroyed, added, removed, gone,
                 race>>
  /\ hist' = WriteLogged(ok)
  /\ UNCHANGED xfile
  /\ UNCHANGED <<track, guard>>

\* setInterval's callback
Tick ==
  /\ budget > 0
  /\ budget' = budget - 1
  /\ updateTimer
  /\ CanStart("tick")
  /\ CycleStart("tick")
  /\ race' = IF race.on THEN [race EXCEPT !.started = TRUE] ELSE race
  /\ UNCHANGED <<config, domains, lastUpdate, updateTimer, initPc, file, calls,
                 destroyed, added, removed, gone>>
  /\ UNCHANGED <<xfile, hist>>
  /\ UNCHANGED <<track, guard>>

ForceUpdate ==
  /\ budget > 0
  /\ budget' = budget - 1
  /\ CanStart("force")
  /\ CycleStart("force")
  /\ race' = IF race.on THEN [race EXCEPT !.started = TRUE] ELSE race
  /\ UNCHANGED <<config, domains, lastUpdate, updateTimer, initPc, file, calls,
                 destroyed, added, removed, gone>>
  /\ UNCHANGED <<xfile, hist>>
  /\ UNCHANGED <<track, guard>>

Snap(ds, lu) == [domains |-> ds, lastUpdate |-> lu]

\* addDomains up to the writeFile of saveToStorage, or to its end when nothing
\* was added
AddDomains(input) ==
  /\ budget > 0
  /\ budget' = budget - 1
  /\ calls["add"].pc = "idle"
  /\ LET ds2 == AddAll(domains, input)
         save == ShouldSave(AddedCount(domains, input))
     IN /\ domains' = ds2
        /\ calls' = IF save
                      THEN [calls EXCEPT !["add"] = [IdleCall EXCEPT !.pc = "save",
                                                       !.data = Snap(ds2, lastUpdate)]]
                      ELSE calls
        /\ hist' = Logged(Entry("add", input, ds2, save))
        /\ cycles' = Touch(0, ds2 # domains, FALSE)
        /\ added' = IF initPc = "done" THEN added \cup (ds2 \ domains) ELSE added
        /\ gone' = gone \ ds2
  /\ race' = IF race.on THEN [race EXCEPT !.addDone = TRUE] ELSE race
  /\ UNCHANGED <<config, lastUpdate, updateTimer, initPc, file, destroyed, removed>>
  /\ UNCHANGED xfile
  /\ track' = [track EXCEPT
       !.absent = @ \ domains',
       !.early = IF initPc # "done" THEN @ \cup (domains' \ domains) ELSE @,
       !.earlyAbsent = @ \ domains']
  /\ UNCHANGED guard

\* removeDomains up to the writeFile of saveToStorage, or to its end when
\* nothing was removed
RemoveDomains(input) ==
  /\ budget > 0
  /\ budget' = budget - 1
  /\ calls["remove"].pc = "idle"
  /\ LET ds2 == RemoveAll(domains, input)
         save == ShouldSave(RemovedCount(domains, input))
     IN /\ domains' = ds2
        /\ calls' = IF save
                      THEN [calls EXCEPT !["remove"] = [IdleCall EXCEPT !.pc = "save",
                                                          !.data = Snap(ds2, lastUpdate)]]
                      ELSE calls
        /\ hist' = Logged(Entry("remove", input, ds2, save))
        /\ cycles' = Touch(0, ds2 # domains, TRUE)
        /\ added' = added \ (domains \ ds2)
        /\ removed' = removed \cup (domains \ ds2)
  /\ UNCHANGED <<config, lastUpdate, updateTimer, initPc, file, destroyed, gone, race>>
  /\ UNCHANGED xfile
  /\ track' = [track EXCEPT
       !.absent = IF initPc \in {"update", "done"}
                    THEN @ \cup ((domains \ domains') \ RemoteListed) ELSE @,
       !.early = @ \ (domains \ domains'),
       !.earlyAbsent = IF initPc # "done"
                         THEN @ \cup ((domains \ domains') \ RemoteListed) ELSE @]
  /\ UNCHANGED guard

\* reset up to the writeFile of saveToStorage
Reset ==
  /\ budget > 0
  /\ budget' = budget - 1
  /\ calls["reset"].pc = "idle"
  /\ domains' = loadBuiltInDomains(config.customDomains)
  /\ calls' = [calls EXCEPT !["reset"] = [IdleCall EXCEPT !.pc = "save",
                                            !.data = Snap(domains', lastUpdate)]]
  /\ cycles' = Touch(0, domains' # domains, TRUE)
  /\ added' = {}
  /\ gone' = {}
  /\ UNCHANGED <<config, lastUpdate, updateTimer, initPc, file, destroyed, removed,
                 race, xfile>>
  /\ hist' = Logged(Entry("reset", <<>>, domains', TRUE))
  /\ track' = NoTrack
  /\ UNCHANGED guard

\* The writeFile of the saveToStorage of addDomains, removeDomains or reset is over.
CallWriteDone(op, ok) ==
  /\ calls[op].pc = "save"
  /\ file' = IF ok THEN JsonFile(calls[op].data.domains, calls[op].data.lastUpdate) ELSE file
  /\ calls' = [calls EXCEPT ![op] =
                 IF SaveOutcome(ok) = "fulfilled" THEN IdleCall
                 ELSE [IdleCall EXCEPT !.pc = "rejected"]]
  /\ UNCHANGED <<config, domains, lastUpdate, updateTimer, initPc, cycles, budget,
                 destroyed, added, removed, gone, race>>
  /\ hist' = WriteLogged(ok)
  /\ UNCHANGED xfile
  /\ UNCHANGED <<track, guard>>

Destroy ==
  /\ budget > 0
  /\ budget' = budget - 1
  /\ updateTimer' = FALSE
  /\ destroyed' = TRUE
  /\ UNCHANGED <<config, domains, lastUpdate, initPc, file, cycles, calls, added,
                 removed, gone, race>>
  /\ UNCHANGED <<xfile, hist>>
  /\ UNCHANGED <<track, guard>>

\* The process ends with nothing in flight and a new one constructs the service
\* on the same file.
Restart(autoUpdate) ==
  /\ AllIdle
  /\ budget > 0
  /\ budget' = budget - 1
  /\ config' = [config EXCEPT !.autoUpdate = autoUpdate]
  /\ domains' = {}
  /\ lastUpdate' = 0
  /\ updateTimer' = FALSE
  /\ initPc' = "load"
  /\ cycles' = [c \in Slots |-> IdleCycle]
  /\ calls' = [op \in Ops |-> IdleCall]
  /\ destroyed' = FALSE
  /\ added' = {}
  /\ removed' = {}
  /\ gone' = IF file.kind = "json" /\ file.hasDomains /\ file.domains = domains
               THEN removed \ domains ELSE {}
  /\ UNCHANGED <<file, race>>
  /\ UNCHANGED <<xfile, hist>>
  /\ track' = NoTrack
  /\ UNCHANGED guard

Next ==
  \/ \E readOk \in BOOLEAN : LoadDone(readOk)
  \/ InitAfterLoad
  \/ \E c \in Slots, resp \in Responses : FetchDone(c, resp)
  \/ \E c \in Slots, ok \in BOOLEAN : CycleWriteDone(c, ok)
  \/ Tick
  \/ ForceUpdate
  \/ \E input \in AddInputs : AddDomains(input)
  \/ \E input \in RemoveInputs : RemoveDomains(input)
  \/ Reset
  \/ \E op \in Ops, ok \in BOOLEAN : CallWriteDone(op, ok)
  \/ Destroy
  \/ \E autoUpdate \in BOOLEAN : Restart(autoUpdate)

Spec == Init /\ [][Next]_vars

\* ----------------------------------------------- the startup, left to itself

\* What the constructor may find at config.localStoragePath.
StartupFiles == {MissingFile, MalformedFile, JsonNoList, JsonFile({}, 0),
                 JsonFile({D_r_io}, 1)}

\* config.customDomains: as a caller may write it, or in lower case
StartupCustoms == CustomChoices \cup {{D_n_io}}

InitStartup ==
  /\ config \in [autoUpdate : BOOLEAN, customDomains : StartupCustoms]
  /\ domains = {}
  /\ lastUpdate = 0
  /\ updateTimer = FALSE
  /\ initPc = "load"
  /\ file \in StartupFiles
  /\ cycles = [c \in Slots |-> IdleCycle]
  /\ calls = [op \in Ops |-> IdleCall]
  /\ budget = 0
  /\ destroyed = FALSE
  /\ added = {}
  /\ removed = {}
  /\ gone = {}
  /\ race = RaceOff
  /\ xfile = NoExport
  /\ hist = HistOn
  /\ track = NoTrack
  /\ guard = GuardIdle

NextStartup ==
  \/ \E readOk \in BOOLEAN : LoadDone(readOk)
  \/ InitAfterLoad
  \/ \E c \in Slots, resp \in Responses : FetchDone(c, resp)
  \/ \E c \in Slots, ok \in BOOLEAN : CycleWriteDone(c, ok)

SpecStartup == InitStartup /\ [][NextStartup]_vars

\* ------------------------------------- an initialized service and its callers

FreshCustoms == {{}, {D_X_co}}

\* An initialized service with autoUpdate=false: after a start with no file, or
\* after the load of the file a previous process left.
CallBases == {[domains |-> loadBuiltInDomains({D_X_co}), file |-> MissingFile],
              [domains |-> {D_r_io}, file |-> JsonFile({D_r_io}, 1)],
              [domains |-> SearchScenario, file |-> JsonFile(SearchScenario, 1)]}

InitCalls ==
  /\ config \in [autoUpdate : {FALSE}, customDomains : CustomChoices]
  /\ \E b \in CallBases : domains = b.domains /\ file = b.file
  /\ lastUpdate = IF file.kind = "json" THEN file.lastUpdate ELSE 0
  /\ updateTimer = FALSE
  /\ initPc = "done"
  /\ cycles = [c \in Slots |-> IdleCycle]
  /\ calls = [op \in Ops |-> IdleCall]
  /\ budget = MaxSeq
  /\ destroyed = FALSE
  /\ added = {}
  /\ removed = {}
  /\ gone = {}
  /\ race = RaceOff
  /\ xfile \in ImportFiles
  /\ hist = HistOn
  /\ track = NoTrack
  /\ guard = GuardIdle

\* A fresh service: another process constructs the service with no persisted
\* file and autoUpdate=false, and its initialization completes.
Fresh(custom) ==
  /\ AllIdle
  /\ budget > 0
  /\ budget' = budget - 1
  /\ config' = [autoUpdate |-> FALSE, customDomains |-> custom]
  /\ domains' = LoadedDomains(MissingFile, FALSE, {}, custom)
  /\ lastUpdate' = 0
  /\ file' = MissingFile
  /\ calls' = [op \in Ops |-> IdleCall]
  /\ added' = {}
  /\ removed' = {}
  /\ gone' = {}
  /\ hist' = Logged(Entry("fresh", <<>>, domains', FALSE))
  /\ UNCHANGED <<updateTimer, initPc, cycles, destroyed, race, xfile>>
  /\ track' = NoTrack
  /\ UNCHANGED guard

\* importDomains up to its readFile
ImportDomains ==
  /\ budget > 0
  /\ budget' = budget - 1
  /\ calls["import"].pc \in {"idle", "rejected"}
  /\ calls' = [calls EXCEPT !["import"] = [IdleCall EXCEPT !.pc = "read"]]
  /\ UNCHANGED <<config, domains, lastUpdate, updateTimer, initPc, file, cycles,
                 destroyed, added, removed, gone, race, xfile, hist>>
  /\ UNCHANGED <<track, guard>>

\* importDomains after its readFile: a failed read or parse raises; otherwise
\* addDomains runs on the array of the file, up to the writeFile of its
\* saveToStorage or, when it added nothing, to the return of domains.length. An
\* exception of addDomains is caught and raised again, with what the loop had
\* added left in the collection.
ImportReadDone(readOk) ==
  /\ calls["import"].pc = "read"
  /\ IF ~readOk \/ xfile.kind \in {"missing", "malformed"}
       THEN /\ calls' = [calls EXCEPT !["import"] = [IdleCall EXCEPT !.pc = "rejected"]]
            /\ hist' = Logged([Entry("import", <<>>, domains, FALSE) EXCEPT !.raised = TRUE])
            /\ UNCHANGED <<domains, cycles, added, gone>>
       ELSE LET items == ImportedItems(xfile)
                input == StringsBefore(items)
                ds2 == AddAll(domains, input)
                threw == Throws(items)
                save == ~threw /\ ShouldSave(AddedCount(domains, input))
            IN /\ domains' = ds2
               /\ calls' = [calls EXCEPT !["import"] =
                     IF threw THEN [IdleCall EXCEPT !.pc = "rejected"]
                     ELSE IF save
                       THEN [pc |-> "save", data |-> Snap(ds2, lastUpdate), ret |-> Len(items)]
                       ELSE [IdleCall EXCEPT !.ret = Len(items)]]
               /\ cycles' = Touch(0, ds2 # domains, FALSE)
               /\ added' = IF initPc = "done" THEN added \cup (ds2 \ domains) ELSE added
               /\ gone' = gone \ ds2
               /\ hist' = Logged([Entry("import", <<>>, ds2, save) EXCEPT
                                    !.x = items, !.raised = threw,
                                    !.ret = IF threw THEN 0 ELSE Len(items)])
  /\ UNCHANGED <<config, lastUpdate, updateTimer, initPc, file, budget, destroyed,
                 removed, race, xfile>>
  /\ track' = [track EXCEPT
       !.absent = @ \ domains',
       !.early = IF initPc # "done" THEN @ \cup (domains' \ domains) ELSE @,
       !.earlyAbsent = @ \ domains']
  /\ UNCHANGED guard

\* exportDomains(path, 'json') up to its writeFile
ExportDomains ==
  /\ budget > 0
  /\ budget' = budget - 1
  /\ calls["export"].pc \in {"idle", "rejected"}
  /\ LET sorted == sort(domains)
         items == [i \in 1..Len(sorted) |-> StringItem(sorted[i])]
     IN /\ calls' = [calls EXCEPT !["export"] =
                       [IdleCall EXCEPT !.pc = "write", !.data = Snap(domains, lastUpdate)]]
        /\ hist' = Logged([Entry("export", <<>>, domains, FALSE) EXCEPT !.x = items])
  /\ UNCHANGED <<config, domains, lastUpdate, updateTimer, initPc, file, cycles,
                 destroyed, added, removed, gone, race, xfile>>
  /\ UNCHANGED <<track, guard>>

\* The writeFile of exportDomains is over; its error is not caught.
ExportWriteDone(ok) ==
  /\ calls["export"].pc = "write"
  /\ LET sorted == sort(calls["export"].data.domains)
     IN xfile' = IF ok THEN JsonExport([i \in 1..Len(sorted) |-> StringItem(sorted[i])])
                 ELSE xfile
  /\ calls' = [calls EXCEPT !["export"] =
                 IF ok THEN IdleCall ELSE [IdleCall EXCEPT !.pc = "rejected"]]
  /\ UNCHANGED <<config, domains, lastUpdate, updateTimer, initPc, file, cycles,
                 budget, destroyed, added, removed, gone, race, hist>>
  /\ UNCHANGED <<track, guard>>

\* searchDomains
Search(pattern) ==
  /\ budget > 0
  /\ budget' = budget - 1
  /\ hist' = Logged([Entry("search", <<pattern>>, domains, FALSE) EXCEPT
                       !.found = searchDomains(pattern)])
  /\ UNCHANGED <<config, domains, lastUpdate, updateTimer, initPc, file, cycles,
                 calls, destroyed, added, removed, gone, race, xfile>>
  /\ UNCHANGED <<track, guard>>

NextCalls ==
  \/ \E input \in CallAddInputs : AddDomains(input)
  \/ \E input \in CallRemoveInputs : RemoveDomains(input)
  \/ Reset
  \/ \E op \in Ops, ok \in BOOLEAN : CallWriteDone(op, ok)
  \/ \E custom \in FreshCustoms : Fresh(custom)
  \/ ImportDomains
  \/ \E readOk \in BOOLEAN : ImportReadDone(readOk)
  \/ ExportDomains
  \/ \E ok \in BOOLEAN : ExportWriteDone(ok)
  \/ \E pattern \in SearchPatterns : Search(pattern)

SpecCalls == InitCalls /\ [][NextCalls]_vars

\* -------------------------------------- one addDomains against one refresh

\* Collections an initialized service can hold: the built-in list with the custom
\* domains, that list after a first refresh, a loaded file, a loaded file after
\* an add.
RaceBases == {loadBuiltInDomains({D_X_co}),
              Snapshot(loadBuiltInDomains({D_X_co}), {D_X_co}),
              {D_r_io},
              {D_r_io, D_n_io}}

InitRace ==
  /\ config \in [autoUpdate : {TRUE}, customDomains : CustomChoices]
  /\ domains \in RaceBases
  /\ lastUpdate = 0
  /\ updateTimer = TRUE
  /\ initPc = "done"
  /\ file = MissingFile
  /\ cycles = [c \in Slots |-> IdleCycle]
  /\ calls = [op \in Ops |-> IdleCall]
  /\ budget = MaxCalls
  /\ destroyed = FALSE
  /\ added = {}
  /\ removed = {}
  /\ gone = {}
  /\ xfile = NoExport
  /\ hist = HistOff
  /\ track = NoTrack
  /\ guard = GuardIdle
  /\ \E input \in RaceInputs :
       race = [on |-> TRUE, base |-> domains, input |-> input, resps |-> <<>>,
               addDone |-> FALSE, started |-> FALSE]

RaceAdd == ~race.addDone /\ AddDomains(race.input)
RaceTick == ~race.started /\ Tick
RaceForce == ~race.started /\ ForceUpdate

NextRace ==
  \/ RaceAdd
  \/ RaceTick
  \/ RaceForce
  \/ \E c \in Slots, resp \in Responses : FetchDone(c, resp)
  \/ \E c \in Slots, ok \in BOOLEAN : CycleWriteDone(c, ok)
  \/ \E ok \in BOOLEAN : CallWriteDone("add", ok)

SpecRace == InitRace /\ [][NextRace]_vars

\* the refresh alone: the snapshot of the base, the responses, the merge
RECURSIVE WithResponses(_, _)
WithResponses(new, resps) ==
  IF resps = <<>> THEN new ELSE WithResponses(WithResponse(new, Head(resps)), Tail(resps))
RefreshAlone(base, custom, resps) == Merge(WithResponses(Snapshot(base, custom), resps), base)

RaceOver == race.on /\ race.addDone /\ race.started /\ Len(race.resps) = NumSources

\* ------------------------------------------------------------------- claims

\* C1: a domain that addDomains accepted once initialization was over, and that
\* no removeDomains or reset took out since, is a member of the collection
\* whenever nothing is in flight: no refresh cycle that was fetching during the
\* add discards it.
C1_NoLostAdd == AllIdle => added \subseteq domains

\* C2: when one addDomains call and one refresh merge have both taken place, in
\* whatever order their steps came, the collection is at least as large as the
\* add alone would have left it and as the refresh alone (with the same
\* responses) would have left it.
C2_RaceSize ==
  RaceOver =>
    /\ Cardinality(domains) >= Cardinality(AddAll(race.base, race.input))
    /\ Cardinality(domains) >=
         Cardinality(RefreshAlone(race.base, config.customDomains, race.resps))
\* the add came while the cycle was fetching and the merge discarded it
C2_Witness == RaceOver /\ ~(AddAll(race.base, race.input) \subseteq domains)

\* C3: a tick of the timer that finds a refresh cycle in flight is skipped: it
\* starts no cycle.
C3_TickSkipped ==
  [][(\E c \in Slots : InFlight(c)) =>
       \A c \in Slots : ~(~InFlight(c) /\ cycles'[c].pc = "fetch" /\ cycles'[c].kind = "tick")]_vars

\* C4: every member of the collection is lower-case and satisfies the domain rule.
C4_MembersValid == \A d \in domains : d = toLowerCase(d) /\ isValidDomain(d)

\* C5: from construction on the collection holds every built-in domain and
\* every configured custom domain that no removeDomains call took out.
C5_SupersetOfDefaults ==
  \A d \in builtInDomains \cup config.customDomains :
    toLowerCase(d) \notin removed => isDomainTemporary(d)

\* C6: a domain that removeDomains took out, absent from the file the previous
\* process left, is not reported temporary by the new instance once its
\* initialization is over (until an add or a reset brings it back).
C6_RemovalSurvivesRestart == initPc = "done" => \A d \in gone : ~isDomainTemporary(d)

\* C7: once destroy() was called no timer of the service is armed.
C7_NoTimerAfterDestroy == destroyed => ~updateTimer

\* C8: when a refresh cycle ends, with no removeDomains or reset call since it
\* began, the collection is at least as large as when it began.
C8_RefreshNeverShrinks ==
  [][\A c \in Slots :
       (InFlight(c) /\ cycles'[c].pc = "idle" /\ ~cycles[c].rm)
         => Cardinality(domains') >= cycles[c].size0]_vars

\* C9: a forceUpdate during which nothing else changed the collection ends
\* fulfilled, whichever of its sources failed, and every valid domain that a
\* succeeding source returned is then reported temporary.
ForcedAlone(c) == InFlight(c) /\ cycles[c].kind = "force" /\ ~cycles[c].mutated
C9_PartialFailureTolerated ==
  [][\A c \in Slots :
       /\ \A resp \in Responses :
            (ForcedAlone(c) /\ FetchDone(c, resp) /\ ~InFlight(c)')
              => /\ cycles'[c].pc = "idle"
                 /\ \A d \in cycles[c].got \cup
                             (IF resp.ok THEN Range(ParsedBody[resp.body]) ELSE {}) :
                      isDomainTemporary(d)'
       /\ (ForcedAlone(c) /\ cycles[c].pc = "save" /\ ~InFlight(c)')
            => /\ cycles'[c].pc = "idle"
               /\ \A d \in cycles[c].got : isDomainTemporary(d)']_vars
\* a forced cycle, alone, one source failed and another brought domains, merged
C9_Witness ==
  \E c \in Slots :
    /\ ForcedAlone(c) /\ cycles[c].pc = "save"
    /\ cycles[c].failed /\ cycles[c].got # {}
    /\ \A d \in cycles[c].got : isDomainTemporary(d)

\* C10: whether its writeFile succeeds or fails, a call of addDomains,
\* removeDomains or reset and a refresh cycle end fulfilled, the collection is
\* what the mutation made it, and the file is the old one or the snapshot; and
\* every mutation that changes the collection starts a write of the whole
\* collection as it then is.
WriteStarted(ds) ==
  \/ \E op \in Ops : calls[op].pc # "save" /\ calls'[op].pc = "save"
                     /\ calls'[op].data.domains = ds
  \/ \E c \in Slots : cycles[c].pc # "save" /\ cycles'[c].pc = "save"
                      /\ cycles'[c].data.domains = ds
C10_PersistenceBestEffort ==
  [][/\ \A op \in Ops :
          (calls[op].pc = "save" /\ calls'[op].pc # "save")
            => /\ calls'[op].pc = "idle"
               /\ domains' = domains
               /\ file' \in {file, JsonFile(calls[op].data.domains, calls[op].data.lastUpdate)}
     /\ \A c \in Slots :
          (cycles[c].pc = "save" /\ cycles'[c].pc # "save")
            => /\ cycles'[c].pc = "idle"
               /\ domains' = domains
               /\ file' \in {file, JsonFile(cycles[c].data.domains, cycles[c].data.lastUpdate)}
     /\ (domains' # domains /\ initPc' = initPc) => WriteStarted(domains')]_vars
\* the write of the first refresh failed (the file is still missing), and the
\* add that followed has started a write of the whole collection
C10_Witness ==
  /\ initPc = "done" /\ config.autoUpdate /\ file.kind = "missing"
  /\ calls["add"].pc = "save"
  /\ calls["add"].data.domains = domains
  /\ D_n_io \in domains

\* C11: a service constructed with autoUpdate=false whose persisted file was
\* missing, unreadable or malformed reports, once initialized, every configured
\* custom domain and every built-in default domain (mailinator.com is named as
\* one) temporary, and a domain of neither list not temporary.
C11_StartupFallsBack ==
  (initPc = "done" /\ ~config.autoUpdate /\ hist.loadFailed) =>
    /\ \A d \in config.customDomains : isDomainTemporary(d)
    /\ \A d \in builtInDomains \cup {D_mailinator_com} : isDomainTemporary(d)
    /\ ~isDomainTemporary(D_gmail_com)

\* C12: when initialization has finished and no writeFile failed, the persisted
\* file exists and its domain list is the collection.
C12_InitPersists ==
  (initPc = "done" /\ ~hist.writeFailed) =>
    file.kind = "json" /\ file.hasDomains /\ file.domains = domains

\* the n-th call from outside and the normalization addDomains applies
Call(n) == hist.log[n]
NumCalls == Len(hist.log)
Normalized(s) == trim(toLowerCase(s))
Accepted(e) == {s \in Range(e.input) : Normalized(s) \in e.d1 \ e.d0}

\* C13: isTemporary gives the same answer for a string and for that string
\* lower-cased and trimmed; so right after addDomains accepted a string,
\* isTemporary of the string as it was passed is true.
Lookups == {D_n_io, S_N_io_padded, D_grr_la, D_X_co, D_gmail_com}
C13_LookupNormalizes ==
  /\ \A q \in Lookups : isDomainTemporary(q) = isDomainTemporary(Normalized(q))
  /\ (NumCalls > 0 /\ Call(NumCalls).op = "add")
       => \A s \in Accepted(Call(NumCalls)) : isDomainTemporary(s)

\* two calls in a row of addDomains with the same one-string array
AddedTwice(n) ==
  /\ n >= 2 /\ n <= NumCalls
  /\ Call(n - 1).op = "add" /\ Call(n).op = "add"
  /\ Len(Call(n).input) = 1 /\ Call(n).input = Call(n - 1).input
PersistedSize(f) == IF f.kind = "json" /\ f.hasDomains THEN Cardinality(f.domains) ELSE 0

\* C14 (as stated): after addDomains([d]) was called twice the collection is what
\* the first call left, with d in it once, and the persisted domain list has at
\* most one entry more than before the two calls.
C14_AddTwiceFileGrowsByOne ==
  (AllIdle /\ AddedTwice(NumCalls)) =>
    LET first == Call(NumCalls - 1)
        second == Call(NumCalls)
    IN /\ second.d1 = first.d1
       /\ Cardinality(first.d1 \ first.d0) <= 1
       /\ PersistedSize(file) <= PersistedSize(first.f0) + 1

\* C14 (amended): after addDomains([d]) was called twice in a row the collection
\* is what the first call left, with at most one entry more than before the two
\* calls (d, normalized, when it is valid), and the second call starts no write
\* of the persisted file.
C14_AddTwice ==
  \A n \in 1..NumCalls :
    AddedTwice(n) =>
      LET first == Call(n - 1)
          second == Call(n)
      IN /\ second.d1 = first.d1
         /\ Cardinality(first.d1 \ first.d0) <= 1
         /\ first.d1 \ first.d0 \subseteq {Normalized(first.input[1])}
         /\ ~second.wrote
\* the first call added n.io and wrote, the second call came after that write
C14_Witness ==
  /\ AllIdle /\ AddedTwice(NumCalls)
  /\ Call(NumCalls - 1).wrote
  /\ D_n_io \in domains \ Call(NumCalls - 1).d0
  /\ file.kind = "json" /\ file.domains = domains

\* C15: addDomains starts a write of the persisted file if and only if it added a
\* domain, removeDomains if and only if it removed one; a call that changes
\* nothing leaves the collection, lastUpdate and the file as they were and
\* starts nothing.
CallStep(op) == Len(hist'.log) = NumCalls + 1 /\ hist'.log[Len(hist'.log)].op = op
C15_WritesIffChanged ==
  [][\A op \in {"add", "remove"} :
       CallStep(op) =>
         /\ (calls'[op].pc = "save") <=> (domains' # domains)
         /\ domains' # domains => calls'[op].data.domains = domains'
         /\ domains' = domains =>
               lastUpdate' = lastUpdate /\ file' = file /\ calls' = calls]_vars
\* a removeDomains call that removed a member and wrote, then one that found
\* nothing to remove
C15_Witness ==
  /\ NumCalls >= 2
  /\ Call(1).op = "remove" /\ Call(1).wrote /\ Call(1).d1 # Call(1).d0
  /\ Call(2).op = "remove" /\ ~Call(2).wrote /\ Call(2).d1 = Call(2).d0
  /\ calls["remove"].pc = "idle"

\* C16: addDomains given strings that fail the domain rule ends without raising
\* and adds none of them, the valid strings of the same call are members
\* afterwards, and a call with no valid string changes neither the collection
\* nor the file.
InvalidStrings == {S_not_a_domain, S_empty, S_long}
ValidStrings == {D_n_io, S_N_io_padded}
ImportStep == Len(hist'.log) = NumCalls + 1 /\ hist'.log[Len(hist'.log)].op = "import"
C17_ImportFailureNoEffect ==
  [][ImportStep =>
       LET e == hist'.log[Len(hist'.log)]
       IN /\ xfile.kind \in {"missing", "malformed"} => e.raised
          /\ e.raised => /\ domains' = domains
                          /\ file' = file
                          /\ calls'["import"].pc # "save"]_vars

\* C18: the number importDomains returns is the number of domains the call added
\* to the collection: size() after the call minus size() before it.
C18_ImportCount ==
  \A n \in 1..NumCalls :
    (Call(n).op = "import" /\ ~Call(n).raised) =>
      Call(n).ret = Cardinality(Call(n).d1) - Cardinality(Call(n).d0)

\* C19: after exportDomains(path, 'json'), a fresh service that imports the file
\* written holds every domain that was exported.
C19_RoundTrip ==
  \A n \in 3..NumCalls :
    (/\ Call(n - 2).op = "export"
     /\ Call(n - 1).op = "fresh"
     /\ Call(n).op = "import" /\ ~Call(n).raised
     /\ Call(n).x = Call(n - 2).x)
      => \A i \in 1..Len(Call(n).x) : Call(n).x[i].s \in Call(n).d1

\* a search for "temp" in the collection of 10minutemail.com, gmail.com and
\* temp-mail.org
SearchedTemp(n) ==
  /\ n \in 1..NumCalls
  /\ Call(n).op = "search" /\ Call(n).input = <<P_temp>>
  /\ Call(n).d0 = SearchScenario

\* C20 (as stated): that search returns 10minutemail.com and temp-mail.org.
C20_SearchTempFindsTwo ==
  \A n \in 1..NumCalls :
    SearchedTemp(n) => Call(n).found = {D_10minutemail_com, D_temp_mail_org}

\* C20 (amended): that search returns temp-mail.org alone, the only one of the
\* three in which "temp" occurs.
C20_SearchTemp ==
  \A n \in 1..NumCalls : SearchedTemp(n) => Call(n).found = {D_temp_mail_org}
C20_Witness == \E n \in 1..NumCalls : SearchedTemp(n) /\ D_temp_mail_org \in Call(n).found


\* The last call of the log is a reset that started with no call in flight.
ResetAlone ==
  /\ NumCalls > 0
  /\ Call(NumCalls).op = "reset"
  /\ Call(NumCalls).idle
  /\ AllIdle

\* C21 (as stated): once a reset() that ran alone has returned, the set is the
\* built-in list plus config.customDomains and the storage file holds exactly
\* that set.
C21_ResetWritten ==
  ResetAlone =>
    /\ domains = builtInDomains \cup config.customDomains
    /\ file = JsonFile(domains, lastUpdate)

\* C21 (amended): once a reset() that ran alone has returned, the set is the
\* built-in list plus config.customDomains, and the storage file either holds
\* exactly that set or, the write having failed, is as it was before the call.
C21_Reset ==
  ResetAlone =>
    /\ domains = builtInDomains \cup config.customDomains
    /\ \/ file = JsonFile(domains, lastUpdate)
       \/ file = Call(NumCalls).f0

\* A reset that followed a removal of a built-in domain and an addition has
\* returned with the file written.
C21_Witness ==
  /\ ResetAlone
  /\ NumCalls = 3
  /\ Call(1).op = "remove" /\ D_grr_la \notin Call(1).d1
  /\ Call(2).op = "add" /\ D_n_io \in Call(2).d1
  /\ config.customDomains # {}
  /\ file = JsonFile(domains, lastUpdate)
  /\ file # Call(NumCalls).f0

\* C22: destroy() changes nothing but the timer: the collection, lastUpdate and
\* the persisted file are as before the call (so isDomainTemporary answers as
\* before), and a destroy() of a service that was already destroyed changes
\* nothing at all, the timer included.
C22_DestroyFrame ==
  [][Destroy =>
       /\ domains' = domains
       /\ lastUpdate' = lastUpdate
       /\ file' = file
       /\ \A d \in domains \cup builtInDomains :
            isDomainTemporary(d)' = isDomainTemporary(d)
       /\ destroyed => updateTimer' = updateTimer]_vars

\* C29: while a refresh cycle is waiting for a response, every configured source
\* has been requested: no request waits for the outcome of another source.
Requested(c) == IF cycles[c].pc = "fetch" THEN 1..cycles[c].src ELSE {}
C29_RequestsTogether ==
  \A c \in Slots : cycles[c].pc = "fetch" => Requested(c) = 1..NumSources

\* C30: with autoUpdate disabled, no timer is armed and initialization requests
\* no remote source, whatever the persisted file holds; once initialization is
\* over the collection of a service that loaded no domain is the built-in list
\* plus the custom domains.
C30_NoFetchWithoutAutoUpdate ==
  ~config.autoUpdate =>
    /\ ~updateTimer
    /\ \A c \in Slots : ~InFlight(c)
    /\ (initPc = "done" /\ file.kind = "json"
          /\ (~file.hasDomains \/ file.domains = {})) =>
          domains = builtInDomains \cup config.customDomains

\* The calls so far were addDomains, removeDomains and reset only, and one of
\* them changed the set.
MutationsOnly ==
  /\ \A n \in 1..NumCalls : Call(n).op \in {"add", "remove", "reset"}
  /\ \E n \in 1..NumCalls : Call(n).d1 # Call(n).d0

\* C28: whenever nothing is in progress, no file write has failed and a
\* mutation has changed the set, the persisted file holds the in-memory
\* collection, also when the writes of several mutations were in flight together.
C28_FileConverges ==
  (AllIdle /\ ~hist.writeFailed /\ MutationsOnly) =>
    (file.kind = "json" /\ file.domains = domains)

\* C26: a domain that no remote source lists and that a removeDomains call,
\* made after the load of the persisted state and since returned, deleted stays
\* absent until an addDomains, an importDomains
\* or a reset brings it back: no refresh cycle re-adds it.
C26_RemovalStands ==
  calls["remove"].pc = "idle" => track.absent \cap domains = {}

\* C27: once initialization has completed, the collection holds every domain
\* that addDomains accepted while initialization was in progress (and that no
\* call removed since), and none that removeDomains deleted in that time (and
\* that no call added since).
C27_EarlyMutationKept ==
  initPc = "done" =>
    /\ track.early \subseteq domains
    /\ track.earlyAbsent \cap domains = {}

\* ------------------------------------------------ TrialAbuseGuard.checkUser
\* Math.round(n / d) for n >= 0 and d > 0
MathRound(n, d) == (2 * n + d) \div (2 * d)

checkEmailSimilarity(o) ==
  IF o.status = "rejected" THEN createErrorFactor
  ELSE [score |-> IF o.flag THEN MathRound(o.n * 100, 1000) ELSE 0,
        detected |-> o.flag,
        confidence |-> o.n]
checkTempEmail(o) ==
  IF o.status = "rejected" THEN createErrorFactor
  ELSE [score |-> IF o.flag THEN 90 ELSE 0,
        detected |-> o.flag,
        confidence |-> IF o.flag THEN 950 ELSE 50]
checkIPRisk(o) ==
  IF o.status = "rejected" THEN createErrorFactor
  ELSE [score |-> o.n, detected |-> o.n > 50, confidence |-> o.n * 10]
checkVPN(o) ==
  IF o.status = "rejected" THEN createErrorFactor
  ELSE [score |-> IF o.flag THEN 80 ELSE 0,
        detected |-> o.flag,
        confidence |-> IF o.flag THEN 900 ELSE 100]
check(c, o) ==
  CASE c = "emailSimilarity" -> checkEmailSimilarity(o)
    [] c = "tempEmail" -> checkTempEmail(o)
    [] c = "ipRisk" -> checkIPRisk(o)
    [] c = "vpnDetection" -> checkVPN(o)

\* The settled promise of one check: the factor, or null for a disabled check.
FulfilledWith(factor) == [status |-> "fulfilled", truthy |-> TRUE, value |-> factor]
FulfilledNull == [status |-> "fulfilled", truthy |-> FALSE, value |-> createErrorFactor]
processResult(result) ==
  IF result.status = "fulfilled" /\ result.truthy THEN result.value
  ELSE createErrorFactor

\* (variant: a disabled check runs all the same)
Enabled_Always(cfg, c) == TRUE
Enabled(cfg, c) == cfg[c]
analyzeAllFactors(cfg, outs) ==
  [c \in Checks |->
     processResult(IF Enabled(cfg, c) THEN FulfilledWith(check(c, outs[c]))
                   ELSE FulfilledNull)]

\* weights, in hundredths
weights == [emailSimilarity |-> 30, tempEmail |-> 25, ipRisk |-> 25, vpnDetection |-> 20]
ScoreTerm(factors, c) ==
  IF factors[c].confidence > 0
    THEN factors[c].score * weights[c] * factors[c].confidence
    ELSE 0
WeightTerm(factors, c) ==
  IF factors[c].confidence > 0 THEN weights[c] * factors[c].confidence ELSE 0
calculateOverallRisk(factors) ==
  LET totalScore == ScoreTerm(factors, "emailSimilarity") + ScoreTerm(factors, "tempEmail")
                    + ScoreTerm(factors, "ipRisk") + ScoreTerm(factors, "vpnDetection")
      totalWeight == WeightTerm(factors, "emailSimilarity") + WeightTerm(factors, "tempEmail")
                     + WeightTerm(factors, "ipRisk") + WeightTerm(factors, "vpnDetection")
  IN IF totalWeight > 0 THEN MathRound(totalScore, totalWeight) ELSE 0

getRecommendation(score) ==
  IF score >= 80 THEN "block" ELSE IF score >= 50 THEN "flag" ELSE "allow"
getRiskLevel(score) ==
  IF score >= 80 THEN "critical"
  ELSE IF score >= 60 THEN "high"
  ELSE IF score >= 30 THEN "medium"
  ELSE "low"

\* The callers' inputs: a disposable-domain email, another email, a value that
\* is no string (a caller without type checking); an address that is no IP
\* address, a private one, a public one.
E_disposable == "test@10minutemail.com"
E_regular == "test@example.com"
E_noString == "(no string)"
Emails == {E_disposable, E_regular, E_noString}
IP_invalid == "not-an-ip"
IP_private == "192.168.1.1"
IP_public == "203.0.113.1"
IPs == {IP_invalid, IP_private, IP_public}
\* highestSimilarity of a suspicious email (above the threshold 0.8), in
\* thousandths, and the risk scores of a public address
Similarities == {834, 1000}
RiskScores == {0, 40, 55, 100}
GuardConfigs == [Checks -> BOOLEAN]

\* What the detectors can come to for an email and an address. readOk: the
\* storage adapter's getExistingEmails succeeds.
SimilarityOutcomes(email, readOk) ==
  IF ~readOk \/ email = E_noString THEN {Threw}
  ELSE {Answered(FALSE, 0)} \cup {Answered(TRUE, s) : s \in Similarities}
TempEmailOutcomes(email) ==
  IF email = E_noString THEN {Threw}
  ELSE IF email = E_disposable THEN {Answered(TRUE, 0)}
  ELSE {Answered(FALSE, 0), Answered(TRUE, 0)}
IPOutcomes(ip) ==
  IF ip = IP_invalid THEN {Threw}
  ELSE IF ip = IP_private THEN {Answered(FALSE, 0)}
  ELSE {Answered(FALSE, r) : r \in RiskScores}
VPNOutcomes(ip) == {Answered(FALSE, 0), Answered(TRUE, 0)}
Outcomes(email, ip, readOk) ==
  {[emailSimilarity |-> a, tempEmail |-> b, ipRisk |-> c, vpnDetection |-> d] :
     a \in SimilarityOutcomes(email, readOk), b \in TempEmailOutcomes(email),
     c \in IPOutcomes(ip), d \in VPNOutcomes(ip)}

\* A guard constructed with some checks disabled; the domain service is left
\* alone.
InitGuard ==
  /\ config = [autoUpdate |-> FALSE, customDomains |-> {}]
  /\ domains = loadBuiltInDomains({})
  /\ lastUpdate = 0
  /\ updateTimer = FALSE
  /\ initPc = "done"
  /\ file = MissingFile
  /\ cycles = [c \in Slots |-> IdleCycle]
  /\ calls = [op \in Ops |-> IdleCall]
  /\ budget = 0
  /\ destroyed = FALSE
  /\ added = {}
  /\ removed = {}
  /\ gone = {}
  /\ race = RaceOff
  /\ xfile = NoExport
  /\ hist = HistOff
  /\ track = NoTrack
  /\ \E cfg \in GuardConfigs : guard = [GuardIdle EXCEPT !.config = cfg]

ServiceUnchanged ==
  UNCHANGED <<config, domains, lastUpdate, updateTimer, initPc, file, cycles, calls,
              budget, destroyed, added, removed, gone, race, xfile, hist, track>>

\* checkUser(email, ipAddress) up to the await of analyzeAllFactors
CheckUser(email, ip) ==
  /\ guard.pc = "idle"
  /\ guard' = [guard EXCEPT !.pc = "analyze", !.email = email, !.ip = ip]
  /\ ServiceUnchanged

\* The four checks have settled: the factors, the overall score and the
\* recommendation are computed and storeUserData is awaited.
Settled(readOk) ==
  /\ guard.pc = "analyze"
  /\ \E outs \in Outcomes(guard.email, guard.ip, readOk) :
       LET factors == analyzeAllFactors(guard.config, outs)
           overall == calculateOverallRisk(factors)
       IN guard' = [guard EXCEPT !.pc = "store", !.outcome = outs,
                                 !.factors = factors, !.overall = overall,
                                 !.recommendation = getRecommendation(overall)]
  /\ ServiceUnchanged

\* storeUserData is over: checkUser resolves with the result, or rejects with
\* the error of the storage adapter.
StoreDone(ok) ==
  /\ guard.pc = "store"
  /\ guard' = [guard EXCEPT !.pc = IF ok THEN "resolved" ELSE "rejected"]
  /\ ServiceUnchanged

\* getRiskLevel(score), and the recommendation checkTrialAbuse derives from the
\* same score
Classify(score) ==
  /\ guard.pc = "idle"
  /\ guard' = [guard EXCEPT !.pc = "classified", !.score = score,
                            !.level = getRiskLevel(score),
                            !.recommendation = getRecommendation(score)]
  /\ ServiceUnchanged

NextGuard ==
  \/ \E email \in Emails, ip \in IPs : CheckUser(email, ip)
  \/ \E readOk \in BOOLEAN : Settled(readOk)
  \/ \E ok \in BOOLEAN : StoreDone(ok)
  \/ \E score \in 0..100 : Classify(score)

SpecGuard == InitGuard /\ [][NextGuard]_vars

\* The README's table of risk levels and recommendations.
RiskTable(score, level, recommendation) ==
  /\ score \in 0..29 => (level = "low" /\ recommendation = "allow")
  /\ score \in 30..59 => (level = "medium" /\ recommendation = "flag")
  /\ score \in 60..79 => (level = "high" /\ recommendation = "flag")
  /\ score \in 80..100 => (level = "critical" /\ recommendation = "block")

\* C23: for every integer score from 0 to 100 the risk level and the
\* recommendation derived from it are those of the README's table, for a score
\* that a caller classifies and for the overall score of a checkUser result.
C23_RiskTable ==
  /\ guard.pc = "classified" =>
       RiskTable(guard.score, guard.level, guard.recommendation)
  /\ guard.pc = "resolved" =>
       RiskTable(guard.overall, getRiskLevel(guard.overall), guard.recommendation)

AllDisabled == \A c \in Checks : ~guard.config[c]

\* C24: with the four checks disabled, the result checkUser returns has overall
\* 0, recommendation 'allow' and no factor marked detected, for every email and
\* address.
C24_DisabledChecks ==
  (AllDisabled /\ guard.pc = "resolved") =>
    /\ guard.overall = 0
    /\ guard.recommendation = "allow"
    /\ \A c \in Checks : ~guard.factors[c].detected

\* checkUser has returned for a disposable-domain email and an address behind
\* a VPN, all checks disabled.
C24_Witness ==
  /\ AllDisabled
  /\ guard.pc = "resolved"
  /\ guard.email = E_disposable
  /\ guard.ip = IP_public
  /\ guard.outcome["tempEmail"] = Answered(TRUE, 0)
  /\ guard.outcome["vpnDetection"] = Answered(TRUE, 0)

\* the checks that ran and failed
FailedChecks == {c \in Checks : guard.config[c] /\ guard.outcome[c].status = "rejected"}
\* the factors with the failed checks replaced by factors of confidence 0
WithoutFailed ==
  [c \in Checks |-> IF c \in FailedChecks THEN createErrorFactor ELSE guard.factors[c]]

\* C25: when some of the detectors have failed, checkUser still resolves, with
\* an overall score from 0 to 100 and a recommendation among allow, flag and
\* block; each failed detector's factor has score 0, detected false and
\* confidence 0 and takes no part in the weighted aggregate.
C25_Degrades ==
  (FailedChecks # {} /\ guard.pc \in {"resolved", "rejected"}) =>
    /\ guard.pc = "resolved"
    /\ guard.overall \in 0..100
    /\ guard.recommendation \in {"allow", "flag", "block"}
    /\ \A c \in FailedChecks : guard.factors[c] = createErrorFactor
    /\ guard.overall = calculateOverallRisk(WithoutFailed)
====
